---- MODULE Spec2Model ----
(***************************************************************************)
(* Model of batch_executor.py: BatchExecutor.run_batch_execution and the   *)
(* helpers it calls.  Text is a sequence of one-character strings, so the   *)
(* string functions (strip, replace, startswith, split, re.search) are      *)
(* computed character by character as Python computes them.                 *)
(***************************************************************************)
EXTENDS Integers, Sequences, FiniteSets, TLC

VARIABLES
    command_file,           \* the file at self.command_file: [error, content]
    csv_file,               \* the file at self.csv_file: [error, rows]
    delay_ms,               \* self.delay_ms
    verify_return,          \* self.verify_return
    dry_run,                \* the dry_run argument of run_batch_execution
    pc,                     \* position in run_batch_execution
    command_template,       \* local command_template
    ids,                    \* local ids
    i,                      \* loop index of enumerate(ids, 1)
    successful_executions,  \* local counter
    failed_executions,      \* local counter
    last,                   \* values of the latest iteration's locals
    stopped,                \* TRUE once the break of line 271 was taken
    trace,                  \* calls made so far, in order
    summary,                \* summaries logged so far (lines 305-308)
    raised,                 \* exception that left run_batch_execution
    called,                 \* the method called on its own, "none" in a run
    args,                   \* the arguments of that call
    returned,               \* what that call returned
    exit_calls              \* the statuses main passed to sys.exit

vars == <<command_file, csv_file, delay_ms, verify_return, dry_run, pc,
          command_template, ids, i, successful_executions, failed_executions,
          last, stopped, trace, summary, raised,
          called, args, returned, exit_calls>>

(***************************************************************************)
(* Bounds of the model.                                                    *)
(***************************************************************************)
MaxRows == 7

\* longest stdout handed to extract_response_body on its own
MaxText == 5

\* most pieces a stderr handed to extract_http_response_code is made of
MaxParts == 3

\* largest number handed to is_valid_http_code as a string
MaxCode == 1000

\* most rows of a CSV file handed to read_ids_from_csv on its own
MaxList == 4

(***************************************************************************)
(* Text helpers.                                                           *)
(***************************************************************************)
None == <<"None">>

Whitespace == {" ", "\n", "\t", "\r"}

Digits == {"0", "1", "2", "3", "4", "5", "6", "7", "8", "9"}

DigitValue(c) ==
    CASE c = "0" -> 0 [] c = "1" -> 1 [] c = "2" -> 2 [] c = "3" -> 3
      [] c = "4" -> 4 [] c = "5" -> 5 [] c = "6" -> 6 [] c = "7" -> 7
      [] c = "8" -> 8 [] c = "9" -> 9

Min(S) == CHOOSE x \in S : \A y \in S : x <= y

\* str.strip(): drop leading and trailing whitespace
RECURSIVE LStrip(_)
LStrip(s) ==
    IF s # <<>> /\ Head(s) \in Whitespace THEN LStrip(Tail(s)) ELSE s

RECURSIVE RStrip(_)
RStrip(s) ==
    IF s # <<>> /\ s[Len(s)] \in Whitespace
    THEN RStrip(SubSeq(s, 1, Len(s) - 1))
    ELSE s

Strip(s) == RStrip(LStrip(s))

\* str.startswith(prefix)
StartsWith(s, prefix) ==
    /\ Len(s) >= Len(prefix)
    /\ SubSeq(s, 1, Len(prefix)) = prefix

\* str.replace(old, new): left to right, non-overlapping, every occurrence
RECURSIVE Replace(_, _, _)
Replace(s, old, new) ==
    IF s = <<>> THEN <<>>
    ELSE IF StartsWith(s, old)
         THEN new \o Replace(SubSeq(s, Len(old) + 1, Len(s)), old, new)
         ELSE <<Head(s)>> \o Replace(Tail(s), old, new)

\* str.split('\n'): always at least one line
RECURSIVE SplitLines(_)
SplitLines(s) ==
    LET nl == {k \in 1..Len(s) : s[k] = "\n"} IN
    IF nl = {} THEN <<s>>
    ELSE LET k == Min(nl) IN
         <<SubSeq(s, 1, k - 1)>> \o SplitLines(SubSeq(s, k + 1, Len(s)))

\* '\n'.join(lines)
RECURSIVE JoinLines(_)
JoinLines(lines) ==
    IF lines = <<>> THEN <<>>
    ELSE IF Len(lines) = 1 THEN lines[1]
    ELSE lines[1] \o <<"\n">> \o JoinLines(Tail(lines))

PLACEHOLDER == <<"<", "i", "d", ">">>
CURL == <<"c", "u", "r", "l">>
HTTP == <<"H", "T", "T", "P">>
TIMED_OUT == <<"C", "o", "m", "m", "a", "n", "d", " ", "t", "i", "m", "e",
               "d", " ", "o", "u", "t">>

(***************************************************************************)
(* Inputs: the two files, the configuration and what the subprocess does.  *)
(***************************************************************************)
\* contents of the command file
CommandContents ==
    { <<" ", "c", "u", "r", "l", " ", "<", "i", "d", ">", "\n">>,
      <<"e", "c", "h", "o", " ", "<", "i", "d", ">", " ", "<", "i", "d", ">">> }

\* what open() and read() raise for an unreadable file
LoadErrors == {"FileNotFoundError", "PermissionError"}

CommandFiles ==
    {[error |-> e, content |-> <<>>] : e \in LoadErrors}
        \cup {[error |-> "none", content |-> c] : c \in CommandContents}

\* rows as csv.reader yields them: a row is a list of cells.  The files
\* repeat an identifier row, another identifier row with a second column and
\* a row whose first cell is blank, starting anywhere in that cycle.
RowCycle ==
    << << <<" ", "a">> >>,
       << <<"b">>, <<"x">> >>,
       << <<" ">>, <<"x">> >> >>

CsvRows(n, phase) == [k \in 1..n |-> RowCycle[((k + phase) % Len(RowCycle)) + 1]]

CsvFiles ==
    {[error |-> e, rows |-> <<>>] : e \in LoadErrors}
        \cup {[error |-> "none", rows |-> CsvRows(n, phase)] :
                 n \in 0..MaxRows, phase \in 0..(Len(RowCycle) - 1)}

DelayChoices == {0, 1000}

\* every text of at most n characters of the alphabet
RECURSIVE TextsUpTo(_, _)
TextsUpTo(alphabet, n) ==
    IF n = 0 THEN {<<>>}
    ELSE LET shorter == TextsUpTo(alphabet, n - 1) IN
         shorter \cup {Append(t, c) : t \in {x \in shorter : Len(x) = n - 1},
                                      c \in alphabet}

\* what subprocess.run does with the command
Outcomes ==
    { [kind |-> "completed", returncode |-> 0,
       stdout |-> <<"H", "T", "T", "P", "/", "2", " ", "2", "0", "0", "\n", "\n", "o", "k">>,
       stderr |-> <<>>],
      [kind |-> "completed", returncode |-> 0,
       stdout |-> <<>>,
       stderr |-> <<"H", "T", "T", "P", "/", "1", ".", "1", " ", "4", "0", "4", " ", "N", "o">>],
      [kind |-> "completed", returncode |-> 0,
       stdout |-> <<"H", "T", "T", "P", "/", "2", " ", "3", "0", "1", "\n", "\n">>,
       stderr |-> <<>>],
      [kind |-> "completed", returncode |-> 22,
       stdout |-> <<"H", "T", "T", "P", "/", "2", " ", "5", "0", "0", "\n">>,
       stderr |-> <<>>],
      [kind |-> "completed", returncode |-> 0,
       stdout |-> <<"H", "T", "T", "P", " ", "1", "0", "0">>,
       stderr |-> <<>>],
      [kind |-> "completed", returncode |-> 56,
       stdout |-> <<>>,
       stderr |-> <<"H", "T", "T", "P", " ", "6", "0", "0">>],
      [kind |-> "completed", returncode |-> 1,
       stdout |-> <<>>,
       stderr |-> <<"n", "o">>],
      [kind |-> "TimeoutExpired", returncode |-> 0, stdout |-> <<>>, stderr |-> <<>>],
      [kind |-> "Exception", returncode |-> 0, stdout |-> <<>>, stderr |-> <<"E">>] }

(***************************************************************************)
(* The methods of BatchExecutor.                                           *)
(***************************************************************************)
\* read_command_template: open() or read() raises, and the except clauses
\* log and re-raise
TemplateLoadFails(file) == file.error # "none"

read_command_template(file) == Strip(file.content)

\* variant: the except clause swallows the error instead of re-raising
CsvLoadErrorSwallowed(file) == FALSE

\* read_ids_from_csv: the same for the CSV file
CsvLoadFails(file) == file.error # "none"

\* variant: the blank test is made on the cell before it is stripped
RECURSIVE read_ids_blank_test_unstripped(_)
read_ids_blank_test_unstripped(rows) ==
    IF rows = <<>> THEN <<>>
    ELSE LET row == Head(rows) IN
         IF row # <<>> /\ row[1] # <<>>
         THEN <<Strip(row[1])>> \o read_ids_blank_test_unstripped(Tail(rows))
         ELSE read_ids_blank_test_unstripped(Tail(rows))

\* variant: the cell is appended as it is, not stripped
RECURSIVE read_ids_unstripped(_)
read_ids_unstripped(rows) ==
    IF rows = <<>> THEN <<>>
    ELSE LET row == Head(rows) IN
         IF row # <<>> /\ Strip(row[1]) # <<>>
         THEN <<row[1]>> \o read_ids_unstripped(Tail(rows))
         ELSE read_ids_unstripped(Tail(rows))

\* read_ids_from_csv: first cell of every row whose first cell is not blank
RECURSIVE read_ids_from_csv(_)
read_ids_from_csv(rows) ==
    IF rows = <<>> THEN <<>>
    ELSE LET row == Head(rows) IN
         IF row # <<>> /\ Strip(row[1]) # <<>>
         THEN <<Strip(row[1])>> \o read_ids_from_csv(Tail(rows))
         ELSE read_ids_from_csv(Tail(rows))

\* variant: str.replace with a count of 1
replace_first_id_in_command(template, id_value) ==
    LET at == {p \in 1..(Len(template) - 3) : SubSeq(template, p, p + 3) = PLACEHOLDER}
    IN IF at = {} THEN template
       ELSE SubSeq(template, 1, Min(at) - 1) \o id_value
               \o SubSeq(template, Min(at) + 4, Len(template))

replace_id_in_command(template, id_value) ==
    Replace(template, PLACEHOLDER, id_value)

\* variant: without the TimeoutExpired clause the timeout falls to the
\* general clause and its own message
execute_command_without_timeout_clause(outcome) ==
    IF outcome.kind = "completed"
    THEN [exit_code |-> outcome.returncode,
          stdout |-> outcome.stdout, stderr |-> outcome.stderr]
    ELSE [exit_code |-> -1, stdout |-> <<>>, stderr |-> outcome.stderr]

\* execute_command: (exit_code, stdout, stderr), never an exception
execute_command(outcome) ==
    CASE outcome.kind = "completed" ->
            [exit_code |-> outcome.returncode,
             stdout |-> outcome.stdout, stderr |-> outcome.stderr]
      [] outcome.kind = "TimeoutExpired" ->
            [exit_code |-> -1, stdout |-> <<>>, stderr |-> TIMED_OUT]
      [] OTHER ->
            [exit_code |-> -1, stdout |-> <<>>, stderr |-> outcome.stderr]

\* re.search(r'HTTP.*?(\d{3})', text): group 1 of the leftmost match, the
\* lazy .*? taking the fewest characters, none of them a newline
DigitsAt(text, j) ==
    /\ j + 2 <= Len(text)
    /\ text[j] \in Digits /\ text[j + 1] \in Digits /\ text[j + 2] \in Digits

HttpAt(text, s) ==
    /\ s + 3 <= Len(text)
    /\ text[s] = "H" /\ text[s + 1] = "T" /\ text[s + 2] = "T" /\ text[s + 3] = "P"

\* the positions where .*? can end after a match of HTTP at s
CodeStarts(text, s) ==
    {j \in (s + 4)..(Len(text) - 2) :
        /\ DigitsAt(text, j)
        /\ \A k \in (s + 4)..(j - 1) : text[k] # "\n"}

SearchHttpCode(text) ==
    LET starts == {s \in 1..(Len(text) - 3) :
                      HttpAt(text, s) /\ CodeStarts(text, s) # {}}
    IN IF starts = {} THEN None
       ELSE LET j == Min(CodeStarts(text, Min(starts)))
            IN SubSeq(text, j, j + 2)

IsCurlCommand(command) == StartsWith(Strip(command), CURL)

\* variant: stdout is searched before stderr
extract_http_response_code_stdout_first(command, stdout, stderr) ==
    IF ~IsCurlCommand(command) THEN None
    ELSE LET in_stdout == SearchHttpCode(stdout) IN
         IF in_stdout # None THEN in_stdout
         ELSE SearchHttpCode(stderr)

extract_http_response_code(command, stdout, stderr) ==
    IF ~IsCurlCommand(command) THEN None
    ELSE LET in_stderr == SearchHttpCode(stderr) IN
         IF in_stderr # None THEN in_stderr
         ELSE SearchHttpCode(stdout)

extract_response_body(command, stdout, stderr) ==
    IF ~IsCurlCommand(command) THEN stdout
    ELSE LET lines == SplitLines(stdout)
             blank == {k \in 1..Len(lines) : Strip(lines[k]) = <<>>}
             \* body_start is a 0-based index: the line after the first blank one
             body_start == IF blank = {} THEN 0 ELSE Min(blank)
         IN IF body_start < Len(lines)
            THEN Strip(JoinLines(SubSeq(lines, body_start + 1, Len(lines))))
            ELSE stdout

\* int(http_code): surrounding whitespace, an optional sign, then digits;
\* anything else is a ValueError
Unsigned(code) ==
    LET t == Strip(code) IN
    IF t # <<>> /\ t[1] \in {"+", "-"} THEN Tail(t) ELSE t

ParsesAsInt(code) ==
    /\ Unsigned(code) # <<>>
    /\ \A k \in 1..Len(Unsigned(code)) : Unsigned(code)[k] \in Digits

RECURSIVE DigitsValue(_)
DigitsValue(digits) ==
    IF digits = <<>> THEN 0
    ELSE 10 * DigitsValue(SubSeq(digits, 1, Len(digits) - 1))
            + DigitValue(digits[Len(digits)])

IntOf(code) ==
    IF Strip(code)[1] = "-"
    THEN 0 - DigitsValue(Unsigned(code))
    ELSE DigitsValue(Unsigned(code))

\* variant: every code outside 2xx is an error
is_valid_http_code_only_2xx(http_code) ==
    IF http_code = None \/ ~ParsesAsInt(http_code) THEN "None"
    ELSE IF 200 <= IntOf(http_code) /\ IntOf(http_code) < 300 THEN "True"
    ELSE "False"

\* is_valid_http_code: "True", "False" or "None"
is_valid_http_code(http_code) ==
    IF http_code = None THEN "None"
    ELSE IF ~ParsesAsInt(http_code) THEN "None"
    ELSE LET code == IntOf(http_code) IN
         IF 200 <= code /\ code < 300 THEN "True"
         ELSE IF 400 <= code /\ code < 600 THEN "False"
         ELSE "True"

(***************************************************************************)
(* run_batch_execution as a state machine.                                 *)
(***************************************************************************)
NoLast ==
    [executed |-> FALSE, id_value |-> None, command |-> None, exit_code |-> 0,
     stdout |-> <<>>, stderr |-> <<>>, http_code |-> None, response_body |-> <<>>]

Init ==
    /\ command_file \in CommandFiles
    /\ csv_file \in CsvFiles
    /\ delay_ms \in DelayChoices
    /\ verify_return \in BOOLEAN
    /\ dry_run \in BOOLEAN
    /\ pc = "read_command_template"
    /\ command_template = None
    /\ ids = <<>>
    /\ i = 0
    /\ successful_executions = 0
    /\ failed_executions = 0
    /\ last = NoLast
    /\ stopped = FALSE
    /\ trace = <<>>
    /\ summary = <<>>
    /\ raised = "none"
    /\ called = "none"
    /\ args = <<>>
    /\ returned = <<>>
    /\ exit_calls = <<>>

\* what a run of run_batch_execution never touches
outside == <<called, args, returned, exit_calls>>

config == <<command_file, csv_file, delay_ms, verify_return, dry_run>>

\* line 221: command_template = self.read_command_template()
LoadTemplate ==
    /\ pc = "read_command_template"
    /\ IF TemplateLoadFails(command_file)
       THEN /\ pc' = "raised"
            /\ raised' = command_file.error
            /\ UNCHANGED command_template
       ELSE /\ pc' = "read_ids_from_csv"
            /\ command_template' = read_command_template(command_file)
            /\ UNCHANGED raised
    /\ UNCHANGED <<outside, config, ids, i, successful_executions, failed_executions,
                   last, stopped, trace, summary>>

\* line 228: if not ids
NoIds(list) == list = <<>>

\* lines 225-236: ids = self.read_ids_from_csv(); return when there are
\* none, else enter the for loop
LoadIds ==
    /\ pc = "read_ids_from_csv"
    /\ IF CsvLoadFails(csv_file)
       THEN /\ pc' = "raised"
            /\ raised' = csv_file.error
            /\ UNCHANGED <<ids, i>>
       ELSE /\ ids' = read_ids_from_csv(csv_file.rows)
            /\ pc' = IF NoIds(ids') THEN "returned" ELSE "for"
            /\ UNCHANGED <<i, raised>>
    /\ UNCHANGED <<outside, config, command_template, successful_executions,
                   failed_executions, last, stopped, trace, summary>>

\* variant: the dry_run argument is ignored
DryRunIgnored == FALSE

\* line 242: if dry_run
IsDryRun == dry_run

\* variant: off by one, a pause after the last identifier too
MoreIdsInclusive == i <= Len(ids)

\* lines 247 and 300: if i < len(ids)
MoreIds == i < Len(ids)

\* line 236: the for loop has another identifier to hand out
LoopContinues == i < Len(ids)

\* the end of an iteration that did not break: the sleep when MoreIds, else
\* back to the head of the for loop
AfterIteration == IF MoreIds THEN "sleep" ELSE "for"

\* variant: a dry run goes to the next identifier without the pause
AfterDryRunNoDelay == "for"

\* variant: a dry run with verify_return set rehearses one identifier only
AfterDryRunStopsWhenVerifying == IF verify_return THEN "summary" ELSE AfterIteration

\* lines 246-250: the dry-run branch pauses when MoreIds, then continue
AfterDryRun == AfterIteration

\* variant: the error is counted but the break is missing
AfterBreakMissing == AfterIteration

\* variant: the stop returns from the method instead of leaving the loop
AfterBreakReturns == "returned"

\* line 271: break leaves the loop for the summary
AfterBreak == "summary"

\* variant: only a negative exit status counts as a failure
CountsAsSuccessUnlessNegative(exit_code) == exit_code >= 0

\* variant: the sentinel of a timeout or launch failure is not a failure
CountsAsSuccessOrSentinel(exit_code) == exit_code \in {0, -1}

\* line 276: if exit_code == 0
CountsAsSuccess(exit_code) == exit_code = 0

\* variant: the 1-based index of enumerate used on the 0-based list
CurrentIdOffByOne == ids[IF i < Len(ids) THEN i + 1 ELSE i]

\* line 236: for i, id_value in enumerate(ids, 1)
CurrentId == ids[i]

ReplaceCall(id_value) == [op |-> "replace_id_in_command", arg |-> id_value]

\* variant: a timed-out command is executed a second time
RunnerCallsWithRetry(command, outcome) ==
    IF outcome.kind = "TimeoutExpired"
    THEN <<[op |-> "execute_command", arg |-> command],
           [op |-> "execute_command", arg |-> command]>>
    ELSE <<[op |-> "execute_command", arg |-> command]>>

\* line 253: the calls of execute_command made for one identifier
RunnerCalls(command, outcome) ==
    <<[op |-> "execute_command", arg |-> command]>>

\* lines 249 and 302: time.sleep(self.delay_ms / 1000.0); the argument is
\* kept as the fraction <<numerator, denominator>>
SleepCall == [op |-> "sleep", arg |-> <<delay_ms, 1000>>]

\* lines 236-250: one iteration in dry-run mode
DryRunStep ==
    /\ pc = "loop"
    /\ IsDryRun
    /\ LET id_value == CurrentId
           command == replace_id_in_command(command_template, id_value)
       IN /\ trace' = Append(trace, ReplaceCall(id_value))
          /\ last' = [NoLast EXCEPT !.id_value = id_value, !.command = command]
    /\ successful_executions' = successful_executions + 1
    /\ pc' = AfterDryRun
    /\ UNCHANGED <<outside, config, command_template, ids, i, failed_executions,
                   stopped, summary, raised>>

\* variant: only 5xx stops the run
StopOnServerErrorOnly(http_code) ==
    /\ verify_return
    /\ http_code # None /\ http_code # <<>>
    /\ IntOf(http_code) >= 500 /\ IntOf(http_code) < 600

\* variant: the verify_return flag is not consulted
StopWithoutFlag(http_code) ==
    /\ http_code # None /\ http_code # <<>>
    /\ is_valid_http_code(http_code) = "False"

\* variant: every code that is not 2xx stops the run
StopOnNon2xx(http_code) ==
    /\ verify_return
    /\ http_code # None /\ http_code # <<>>
    /\ ~(IntOf(http_code) >= 200 /\ IntOf(http_code) < 300)

\* lines 262-264: verify_return and http_code, and is_valid is False
StopOnHttpError(http_code) ==
    /\ verify_return
    /\ http_code # None /\ http_code # <<>>
    /\ is_valid_http_code(http_code) = "False"

\* variant: the identifier that stops the run is not counted
StopNotCounted == failed_executions

\* line 270: failed_executions += 1, before the break
StopCounted == failed_executions + 1

\* lines 236-297: one iteration that executes the command
ExecuteStep(outcome) ==
    /\ pc = "loop"
    /\ ~IsDryRun
    /\ LET id_value == CurrentId
           command == replace_id_in_command(command_template, id_value)
           result == execute_command(outcome)
           http_code == extract_http_response_code(command, result.stdout, result.stderr)
           response_body == extract_response_body(command, result.stdout, result.stderr)
       IN /\ trace' = Append(trace, ReplaceCall(id_value)) \o RunnerCalls(command, outcome)
          /\ last' = [executed |-> TRUE, id_value |-> id_value, command |-> command,
                      exit_code |-> result.exit_code, stdout |-> result.stdout,
                      stderr |-> result.stderr, http_code |-> http_code,
                      response_body |-> response_body]
          /\ IF StopOnHttpError(last'.http_code)
             THEN /\ failed_executions' = StopCounted
                  /\ stopped' = TRUE
                  /\ pc' = AfterBreak
                  /\ UNCHANGED successful_executions
             ELSE /\ IF CountsAsSuccess(last'.exit_code)
                     THEN /\ successful_executions' = successful_executions + 1
                          /\ UNCHANGED failed_executions
                     ELSE /\ failed_executions' = failed_executions + 1
                          /\ UNCHANGED successful_executions
                  /\ pc' = AfterIteration
                  /\ UNCHANGED stopped
    /\ UNCHANGED <<outside, config, command_template, ids, i, summary, raised>>

\* lines 249 and 302: the pause at the end of an iteration
Sleep ==
    /\ pc = "sleep"
    /\ trace' = Append(trace, SleepCall)
    /\ pc' = "for"
    /\ UNCHANGED <<outside, config, command_template, ids, i, successful_executions,
                   failed_executions, last, stopped, summary, raised>>

\* variant: an identifier whose command failed is handed out again
NextIndexRetriesFailure == IF last.executed /\ last.exit_code # 0 THEN i ELSE i + 1

\* line 236: enumerate(ids, 1) counts the identifiers from 1
NextIndex == i + 1

\* line 236: the for loop hands out the next identifier, or ends
ForNext ==
    /\ pc = "for"
    /\ IF LoopContinues
       THEN i' = NextIndex /\ pc' = "loop"
       ELSE pc' = "summary" /\ UNCHANGED i
    /\ UNCHANGED <<outside, config, command_template, ids, successful_executions,
                   failed_executions, last, stopped, trace, summary, raised>>

\* line 308: logger.info(f"Total: {len(ids)}")
SummaryTotal == Len(ids)

\* lines 304-308
Summary ==
    /\ pc = "summary"
    /\ summary' = Append(summary, [successful |-> successful_executions,
                                   failed |-> failed_executions,
                                   total |-> SummaryTotal])
    /\ pc' = "returned"
    /\ UNCHANGED <<outside, config, command_template, ids, i, successful_executions,
                   failed_executions, last, stopped, trace, raised>>

Next ==
    \/ LoadTemplate
    \/ LoadIds
    \/ DryRunStep
    \/ \E outcome \in Outcomes : ExecuteStep(outcome)
    \/ Sleep
    \/ ForNext
    \/ Summary

Spec == Init /\ [][Next]_vars

\* the places of control of a run, and the two where it is over
PcValues == {"read_command_template", "read_ids_from_csv", "for", "loop", "sleep",
             "summary", "returned", "raised"}

Running == pc \notin {"returned", "raised"}

\* control leaves the statement it is at
Advance == Running /\ pc' \in PcValues /\ pc' # pc

\* the run as a sequential program: control does not stay at a statement for
\* ever; a command returns or runs into the timeout of line 102, a pause
\* ends, a file is read or the read fails
FairSpec == Spec /\ WF_pc(Advance)

(***************************************************************************)
(* What a run has done so far, read off the trace.                         *)
(***************************************************************************)
CountOf(op) == Cardinality({k \in 1..Len(trace) : trace[k].op = op})

RunnerCallCount == CountOf("execute_command")

SleepCount == CountOf("sleep")

\* identifiers whose per-identifier step has started (and, steps being
\* atomic, completed)
Processed == CountOf("replace_id_in_command")

Loaded == pc \notin {"read_command_template", "read_ids_from_csv", "raised"}

LoopOver == pc \in {"summary", "returned"}

\* a status code in 400..599, read off the three digits
IsHttpError(code) ==
    /\ code # None
    /\ code[1] \in {"4", "5"}

\* this step is one per-identifier step
StepTaken == Processed' = Processed + 1

(***************************************************************************)
(* C1: in a run that is not a dry run and is not stopped early, every      *)
(* processed identifier has its substitution followed by exactly one call  *)
(* of execute_command, whatever that call returns, and at the end of the   *)
(* loop the number of calls is the number of identifiers.                  *)
(***************************************************************************)
C1_OneRunnerCallPerIdentifier ==
    (~dry_run /\ ~stopped) =>
        /\ RunnerCallCount = Processed
        /\ \A k \in 1..Len(trace) :
              trace[k].op = "replace_id_in_command" =>
                  /\ k < Len(trace)
                  /\ trace[k + 1].op = "execute_command"
                  /\ (k + 2 <= Len(trace) => trace[k + 2].op # "execute_command")
        /\ (Loaded /\ LoopOver => RunnerCallCount = Len(ids))

C1_Witness ==
    /\ ~dry_run /\ ~stopped /\ pc = "returned"
    /\ Len(ids) >= 3
    /\ RunnerCallCount = Len(ids)
    /\ successful_executions >= 1 /\ failed_executions >= 1
    /\ last.exit_code = -1

(***************************************************************************)
(* C2: with verify_return on and dry-run off, the execution that yields a  *)
(* status code in 400..599 ends the loop at once: it is the i-th of        *)
(* exactly i executions, nothing is substituted, executed or slept         *)
(* afterwards, and it raises the failure counter by one and leaves the     *)
(* success counter alone, whatever its exit status.                        *)
(***************************************************************************)
C2_StopOnFirstHttpError ==
    /\ [](verify_return /\ ~dry_run /\ last.executed /\ IsHttpError(last.http_code) =>
            /\ stopped /\ LoopOver
            /\ RunnerCallCount = i /\ Processed = i
            /\ trace[Len(trace)] = [op |-> "execute_command", arg |-> last.command]
            /\ last.id_value = ids[i]
            /\ failed_executions >= 1
            /\ successful_executions + failed_executions = i)
    /\ [][ (verify_return /\ StepTaken /\ IsHttpError(last'.http_code)) =>
              /\ failed_executions' = failed_executions + 1
              /\ successful_executions' = successful_executions
              /\ stopped' ]_vars
    /\ [][ stopped => trace' = trace /\ i' = i ]_vars

C2_Witness ==
    /\ verify_return /\ ~dry_run /\ stopped /\ pc = "returned"
    /\ Len(ids) = 5 /\ i = 2
    /\ RunnerCallCount = 2
    /\ failed_executions = 1 /\ successful_executions = 1
    /\ last.http_code = <<"5", "0", "0">>

(***************************************************************************)
(* C3: the total of the summary is the number of identifiers attempted,    *)
(* successes plus failures.                                                *)
(***************************************************************************)
C3_SummaryTotalIsAttempted ==
    \A k \in 1..Len(summary) :
        /\ summary[k].total = summary[k].successful + summary[k].failed
        /\ summary[k].total = Processed

(***************************************************************************)
(* C4: a run that ends without an early stop has slept Len(ids) - 1 times  *)
(* for two identifiers or more and never for fewer, each time for          *)
(* delay_ms / 1000 seconds.                                                *)
(***************************************************************************)
C4_DelayCount ==
    /\ (pc = "returned" /\ ~stopped) =>
          SleepCount = IF Len(ids) >= 2 THEN Len(ids) - 1 ELSE 0
    /\ \A k \in 1..Len(trace) :
          trace[k].op = "sleep" => trace[k].arg = <<delay_ms, 1000>>

C4_Witness ==
    /\ pc = "returned" /\ ~stopped /\ ~dry_run
    /\ Len(ids) >= 3
    /\ SleepCount = Len(ids) - 1
    /\ delay_ms # 0

(***************************************************************************)
(* C5: a dry run never calls execute_command and counts no failure, and    *)
(* when it returns the success counter is the number of identifiers.       *)
(***************************************************************************)
C5_DryRun ==
    dry_run =>
        /\ RunnerCallCount = 0
        /\ failed_executions = 0
        /\ successful_executions = Processed
        /\ (pc = "returned" => successful_executions = Len(ids))

C5_Witness ==
    /\ dry_run /\ verify_return /\ pc = "returned"
    /\ Len(ids) >= 3
    /\ successful_executions = Len(ids)
    /\ IsCurlCommand(last.command)

(***************************************************************************)
(* C6, as claimed: every executed identifier whose status code is in       *)
(* 400..599 raises the failure counter, with verify_return on or off.      *)
(***************************************************************************)
C6_HttpErrorAlwaysFailure ==
    [][ (StepTaken /\ last'.executed /\ IsHttpError(last'.http_code)) =>
            failed_executions' = failed_executions + 1 ]_vars

(***************************************************************************)
(* C6, amended: with verify_return on, such an identifier raises the       *)
(* failure counter and the loop stops, also when the exit status is 0;     *)
(* with verify_return off the loop goes on and the identifier is counted   *)
(* by its exit status alone, a failure only when that is not 0.            *)
(***************************************************************************)
C6_HttpErrorCountedPerFlag ==
    [][ (StepTaken /\ last'.executed /\ IsHttpError(last'.http_code)) =>
            IF verify_return
            THEN /\ failed_executions' = failed_executions + 1
                 /\ successful_executions' = successful_executions
                 /\ stopped' /\ pc' = "summary"
            ELSE /\ ~stopped' /\ pc' \in {"sleep", "for"}
                 /\ IF last'.exit_code = 0
                    THEN /\ successful_executions' = successful_executions + 1
                         /\ failed_executions' = failed_executions
                    ELSE /\ failed_executions' = failed_executions + 1
                         /\ successful_executions' = successful_executions ]_vars

C6_Witness ==
    /\ ~verify_return /\ last.executed
    /\ IsHttpError(last.http_code) /\ last.exit_code = 0
    /\ successful_executions = Processed /\ Processed >= 2
    /\ pc = "returned"

(***************************************************************************)
(* C7: with verify_return off the loop is never stopped, and every loop    *)
(* that ended before the last identifier was stopped by verify_return.     *)
(***************************************************************************)
C7_OnlyStopEndsEarly ==
    /\ ~verify_return => ~stopped
    /\ (Loaded /\ LoopOver) => (Processed = Len(ids) \/ (stopped /\ verify_return))
    /\ (~verify_return /\ Loaded /\ LoopOver) => Processed = Len(ids)

C7_Witness ==
    /\ ~verify_return /\ ~dry_run /\ pc = "returned"
    /\ Len(ids) >= 3 /\ Processed = Len(ids)
    /\ IsHttpError(last.http_code) /\ last.exit_code # 0
    /\ failed_executions = Len(ids)

(***************************************************************************)
(* C8: a pause comes only between the steps of two consecutive             *)
(* identifiers, exactly one each time: never first, never last once the    *)
(* loop is over, never after the execution that stopped the run.           *)
(***************************************************************************)
C8_PausesOnlyBetweenSteps ==
    /\ \A k \in 1..Len(trace) :
          trace[k].op = "sleep" =>
              /\ k > 1
              /\ trace[k - 1].op \in {"replace_id_in_command", "execute_command"}
              /\ (k < Len(trace) => trace[k + 1].op = "replace_id_in_command")
              /\ (k = Len(trace) => ~stopped /\ ~LoopOver /\ Processed < Len(ids))
    /\ \A k \in 2..Len(trace) :
          trace[k].op = "replace_id_in_command" => trace[k - 1].op = "sleep"
    /\ (LoopOver /\ Processed >= 1) => SleepCount = Processed - 1
    /\ stopped => trace[Len(trace)].op = "execute_command"

C8_Witness ==
    /\ stopped /\ pc = "returned"
    /\ i >= 3 /\ i < Len(ids)
    /\ SleepCount = i - 1

(***************************************************************************)
(* C9: a CSV file without any identifier makes run_batch_execution return  *)
(* at once and raise nothing: no call, no pause, no counter touched.       *)
(***************************************************************************)
NoIdentifierRows ==
    \A k \in 1..Len(csv_file.rows) :
        \/ csv_file.rows[k] = <<>>
        \/ \A c \in 1..Len(csv_file.rows[k][1]) : csv_file.rows[k][1][c] \in Whitespace

C9_EmptyListReturns ==
    (/\ command_file.error = "none" /\ csv_file.error = "none"
     /\ NoIdentifierRows
     /\ pc \notin {"read_command_template", "read_ids_from_csv"}) =>
        /\ pc = "returned" /\ raised = "none"
        /\ ids = <<>>
        /\ trace = <<>>
        /\ successful_executions = 0 /\ failed_executions = 0

C9_Witness ==
    /\ pc = "returned" /\ ids = <<>> /\ csv_file.rows # <<>>
    /\ ~dry_run /\ command_template # None

(***************************************************************************)
(* C10: when a file cannot be loaded the error leaves run_batch_execution  *)
(* as it was raised and the loop never starts: nothing is substituted,     *)
(* executed, slept or counted.                                             *)
(***************************************************************************)
C10_LoadFailurePropagates ==
    /\ (command_file.error # "none" /\ pc # "read_command_template") =>
          pc = "raised" /\ raised = command_file.error
    /\ (command_file.error = "none" /\ csv_file.error # "none"
            /\ pc \notin {"read_command_template", "read_ids_from_csv"}) =>
          pc = "raised" /\ raised = csv_file.error
    /\ (command_file.error # "none" \/ csv_file.error # "none") =>
          /\ trace = <<>> /\ ids = <<>> /\ i = 0
          /\ successful_executions = 0 /\ failed_executions = 0
          /\ summary = <<>>

C10_Witness ==
    /\ pc = "raised" /\ raised = "PermissionError"
    /\ command_file.error = "none" /\ csv_file.error = "PermissionError"
    /\ command_template # None

(***************************************************************************)
(* The methods called on their own, as the unit tests call them: one call  *)
(* with arguments from a bounded set, outside any run.                     *)
(***************************************************************************)
run == <<config, pc, command_template, ids, i, successful_executions,
         failed_executions, last, stopped, trace, summary, raised>>

CallInit ==
    /\ command_file = [error |-> "none", content |-> <<>>]
    /\ csv_file = [error |-> "none", rows |-> <<>>]
    /\ delay_ms = 1000
    /\ verify_return = FALSE
    /\ dry_run = FALSE
    /\ pc = "idle"
    /\ command_template = None
    /\ ids = <<>>
    /\ i = 0
    /\ successful_executions = 0
    /\ failed_executions = 0
    /\ last = NoLast
    /\ stopped = FALSE
    /\ trace = <<>>
    /\ summary = <<>>
    /\ raised = "none"
    /\ called = "none"
    /\ args = <<>>
    /\ returned = <<>>
    /\ exit_calls = <<>>

Call(method, arguments, value) ==
    /\ called = "none"
    /\ called' = method
    /\ args' = arguments
    /\ returned' = value
    /\ UNCHANGED <<run, exit_calls>>

\* what subprocess.run can do: the outcomes of the runs, and processes ending
\* with other statuses and short outputs, and failures with other messages
ShortTexts == TextsUpTo({"a", "\n"}, 2)

CallOutcomes ==
    Outcomes
        \cup {[kind |-> "completed", returncode |-> rc, stdout |-> out, stderr |-> err] :
                 rc \in {-9, 0, 2}, out \in ShortTexts, err \in ShortTexts}
        \cup {[kind |-> "Exception", returncode |-> 0, stdout |-> <<>>, stderr |-> msg] :
                 msg \in ShortTexts}

CallExecuteCommand ==
    \E outcome \in CallOutcomes :
        Call("execute_command", <<outcome>>, execute_command(outcome))

\* commands: two that start with curl once stripped, one that does not
CallCommands ==
    { <<"c", "u", "r", "l", " ", "a">>,
      <<" ", "c", "u", "r", "l">>,
      <<"e", "c", "h", "o", " ", "c", "u", "r", "l">> }

\* stdout: lines of a and blanks
BodyTexts == TextsUpTo({"a", " ", "\n"}, MaxText)

CallExtractResponseBody ==
    \E command \in CallCommands, stdout \in BodyTexts :
        Call("extract_response_body", <<command, stdout, <<>>>>,
             extract_response_body(command, stdout, <<>>))

\* every text made of at most n of the pieces
RECURSIVE PiecedTexts(_, _)
PiecedTexts(pieces, n) ==
    IF n = 0 THEN {<<>>}
    ELSE PiecedTexts(pieces, n - 1)
            \cup {t \o piece : t \in PiecedTexts(pieces, n - 1), piece \in pieces}

NOT_FOUND ==
    <<"H", "T", "T", "P", "/", "1", ".", "1", " ", "4", "0", "4", " ",
      "N", "o", "t", " ", "F", "o", "u", "n", "d">>

\* stderr: status lines whole and in pieces, and curl's "HTTP/1.1 404 Not Found"
StderrTexts ==
    PiecedTexts({HTTP, <<" ">>, <<"\n">>, <<"4", "0", "4">>, <<"2", "0">>,
                 <<"5">>, <<"x">>}, MaxParts)
        \cup {NOT_FOUND}

StdoutTexts ==
    { <<>>,
      <<"H", "T", "T", "P", "/", "2", " ", "2", "0", "0", "\n", "\n", "o", "k">>,
      <<"2", "0", "0", " ", "o", "k">> }

CallExtractHttpResponseCode ==
    \E command \in CallCommands, stdout \in StdoutTexts, stderr \in StderrTexts :
        Call("extract_http_response_code", <<command, stdout, stderr>>,
             extract_http_response_code(command, stdout, stderr))

\* str(n) of a natural number
DigitChar(d) ==
    CASE d = 0 -> "0" [] d = 1 -> "1" [] d = 2 -> "2" [] d = 3 -> "3"
      [] d = 4 -> "4" [] d = 5 -> "5" [] d = 6 -> "6" [] d = 7 -> "7"
      [] d = 8 -> "8" [] d = 9 -> "9"

RECURSIVE Decimal(_)
Decimal(n) ==
    IF n < 10 THEN <<DigitChar(n)>>
    ELSE Decimal(n \div 10) \o <<DigitChar(n % 10)>>

\* the same number with a plus sign or between blanks, as int() accepts it
WrittenForms(n) ==
    {Decimal(n), <<"+">> \o Decimal(n), <<" ">> \o Decimal(n) \o <<" ">>}

NegativeCodes == {<<"-">> \o Decimal(n) : n \in {1, 200, 404}}

NotNumbers == {<<>>, <<"a", "b", "c">>, <<"4", "x", "4">>, <<"-">>}

\* http_code: None, the numbers up to MaxCode, and other strings
CodeArguments ==
    {None}
        \cup {Decimal(n) : n \in 0..MaxCode}
        \cup UNION {WrittenForms(n) : n \in {200, 404}}
        \cup NegativeCodes
        \cup NotNumbers

CallIsValidHttpCode ==
    \E http_code \in CodeArguments :
        Call("is_valid_http_code", <<http_code>>, is_valid_http_code(http_code))

ECHO_TWICE ==
    <<"e", "c", "h", "o", " ", "<", "i", "d", ">", " ", "a", "n", "d", " ",
      "<", "i", "d", ">">>

\* templates: placeholders whole, in halves and next to stray brackets
Templates ==
    PiecedTexts({PLACEHOLDER, <<"e">>, <<"<">>, <<"<", "i">>, <<"d", ">">>}, MaxParts)
        \cup {ECHO_TWICE}

IdValues == {<<"X">>, <<"a", "b">>, <<"<">>, PLACEHOLDER, <<>>}

CallReplaceIdInCommand ==
    \E template \in Templates, id_value \in IdValues :
        Call("replace_id_in_command", <<template, id_value>>,
             replace_id_in_command(template, id_value))

\* rows: an empty row, the rows of RowCycle and a row with an empty first cell
RowKinds ==
    { <<>>,
      << <<" ", "a">> >>,
      << <<"b">>, <<"x">> >>,
      << <<" ">>, <<"x">> >>,
      << <<>>, <<"x">> >> }

RowLists == TextsUpTo(RowKinds, MaxList)

CallReadIdsFromCsv ==
    \E rows \in RowLists :
        Call("read_ids_from_csv", <<rows>>, read_ids_from_csv(rows))

CallNext ==
    \/ CallExecuteCommand
    \/ CallExtractResponseBody
    \/ CallExtractHttpResponseCode
    \/ CallIsValidHttpCode
    \/ CallReplaceIdInCommand
    \/ CallReadIdsFromCsv

CallSpec == CallInit /\ [][CallNext]_vars

(***************************************************************************)
(* C11: execute_command raises nothing and returns the status and the two  *)
(* streams of a process that completed, (-1, "", "Command timed out")      *)
(* after a timeout, and (-1, "", message) after any other failure.         *)
(***************************************************************************)
C11_ExecuteCommandNeverRaises ==
    called = "execute_command" =>
        LET outcome == args[1] IN
        /\ raised = "none"
        /\ DOMAIN returned = {"exit_code", "stdout", "stderr"}
        /\ outcome.kind = "completed" =>
              /\ returned.exit_code = outcome.returncode
              /\ returned.stdout = outcome.stdout
              /\ returned.stderr = outcome.stderr
        /\ outcome.kind = "TimeoutExpired" =>
              /\ returned.exit_code = -1
              /\ returned.stdout = <<>>
              /\ returned.stderr = TIMED_OUT
        /\ outcome.kind = "Exception" =>
              /\ returned.exit_code = -1
              /\ returned.stdout = <<>>
              /\ returned.stderr = outcome.stderr

C11_Witness ==
    /\ called = "execute_command"
    /\ args[1].kind = "TimeoutExpired"
    /\ returned.exit_code = -1 /\ returned.stderr = TIMED_OUT

(***************************************************************************)
(* Lines of a text, read off its characters: the line from a to b is blank *)
(* when it holds nothing but spaces and tabs.                              *)
(***************************************************************************)
IsLine(text, a, b) ==
    /\ a = 1 \/ text[a - 1] = "\n"
    /\ b = Len(text) \/ text[b + 1] = "\n"
    /\ \A k \in a..b : text[k] # "\n"

IsBlankLine(text, a, b) ==
    /\ IsLine(text, a, b)
    /\ \A k \in a..b : text[k] \in Whitespace

BlankLineStarts(text) ==
    {a \in 1..(Len(text) + 1) : \E b \in (a - 1)..Len(text) : IsBlankLine(text, a, b)}

\* the text after the first blank line, empty when that line is the last
AfterFirstBlankLine(text) ==
    LET a == Min(BlankLineStarts(text))
        b == CHOOSE e \in (a - 1)..Len(text) : IsBlankLine(text, a, e)
    IN SubSeq(text, b + 2, Len(text))

(***************************************************************************)
(* C12: extract_response_body returns stdout unchanged, character for      *)
(* character, for a curl command whose stdout has no blank line and for    *)
(* every stdout of a command that is not curl.                             *)
(***************************************************************************)
C12_NoBlankLineUnchanged ==
    called = "extract_response_body" =>
        LET command == args[1]
            stdout == args[2]
        IN /\ ~IsCurlCommand(command) => returned = stdout
           /\ (IsCurlCommand(command) /\ BlankLineStarts(stdout) = {}) =>
                 returned = stdout

(***************************************************************************)
(* C13: for a curl command whose stdout has a blank line,                  *)
(* extract_response_body returns the text after the first blank line,      *)
(* stripped, wherever that line is; nothing when it is the last line.      *)
(***************************************************************************)
C13_BodyAfterFirstBlankLine ==
    called = "extract_response_body" =>
        LET command == args[1]
            stdout == args[2]
        IN (IsCurlCommand(command) /\ BlankLineStarts(stdout) # {}) =>
              returned = Strip(AfterFirstBlankLine(stdout))

(***************************************************************************)
(* The first group of three digits that follows HTTP on the same line.     *)
(***************************************************************************)
FollowsProtocol(text, j) ==
    \E s \in 1..(j - 4) :
        /\ SubSeq(text, s, s + 3) = HTTP
        /\ \A k \in (s + 4)..(j - 1) : text[k] # "\n"

CodeGroups(text) ==
    {j \in 1..(Len(text) - 2) :
        /\ \A k \in j..(j + 2) : text[k] \in Digits
        /\ FollowsProtocol(text, j)}

FirstCodeGroup(text) ==
    IF CodeGroups(text) = {} THEN None
    ELSE SubSeq(text, Min(CodeGroups(text)), Min(CodeGroups(text)) + 2)

(***************************************************************************)
(* C14: extract_http_response_code returns None for a command that does    *)
(* not start with curl once stripped; for a curl command it returns the    *)
(* first three-digit group after HTTP in stderr, the one in stdout only    *)
(* when stderr has none, and None when neither has one.  stderr            *)
(* "HTTP/1.1 404 Not Found" gives "404".                                   *)
(***************************************************************************)
C14_StatusCodeFromStderrFirst ==
    called = "extract_http_response_code" =>
        LET command == args[1]
            stdout == args[2]
            stderr == args[3]
            trimmed == Strip(command)
            fetch == Len(trimmed) >= 4 /\ SubSeq(trimmed, 1, 4) = CURL
        IN /\ ~fetch => returned = None
           /\ (fetch /\ FirstCodeGroup(stderr) # None) =>
                 returned = FirstCodeGroup(stderr)
           /\ (fetch /\ FirstCodeGroup(stderr) = None) =>
                 returned = FirstCodeGroup(stdout)
           /\ (fetch /\ stderr = NOT_FOUND) => returned = <<"4", "0", "4">>

C14_Witness ==
    /\ called = "extract_http_response_code"
    /\ IsCurlCommand(args[1])
    /\ args[2] # <<>> /\ FirstCodeGroup(args[2]) = <<"2", "0", "0">>
    /\ args[3] = NOT_FOUND
    /\ returned = <<"4", "0", "4">>

(***************************************************************************)
(* C15: is_valid_http_code gives None for an absent code, True for         *)
(* 200..299, False for 400..599 and True for every other number (1xx, 3xx, *)
(* anything outside 100..599); it gives False for nothing but 400..599.    *)
(***************************************************************************)
C15_Classification ==
    called = "is_valid_http_code" =>
        LET http_code == args[1] IN
        /\ http_code = None => returned = "None"
        /\ \A n \in 0..MaxCode :
              http_code = Decimal(n) =>
                  returned = IF 200 <= n /\ n <= 299 THEN "True"
                             ELSE IF 400 <= n /\ n <= 599 THEN "False"
                             ELSE "True"
        /\ http_code \in NegativeCodes => returned = "True"
        /\ returned = "False" =>
              \E n \in 400..599 : http_code \in WrittenForms(n)

C15_Witness ==
    /\ called = "is_valid_http_code"
    /\ args[1] = <<"3", "0", "1">>
    /\ returned = "True"

(***************************************************************************)
(* A command is the template with every <id> replaced by the identifier:   *)
(* each character outside a placeholder is kept, moved by what the         *)
(* placeholders before it gained or lost, and each placeholder has become  *)
(* the identifier.                                                         *)
(***************************************************************************)
Placeholders(template) ==
    {p \in 1..(Len(template) - 3) :
        /\ template[p] = "<" /\ template[p + 1] = "i"
        /\ template[p + 2] = "d" /\ template[p + 3] = ">"}

IsSubstitution(template, id_value, command) ==
    LET at == Placeholders(template)
        grow == Len(id_value) - 4
        shift(q) == Cardinality({p \in at : p < q}) * grow
    IN /\ Len(command) = Len(template) + Cardinality(at) * grow
       /\ \A q \in 1..Len(template) :
             (\A p \in at : q < p \/ q > p + 3) =>
                 command[q + shift(q)] = template[q]
       /\ \A p \in at :
             SubSeq(command, p + shift(p), p + shift(p) + Len(id_value) - 1) = id_value

(***************************************************************************)
(* C16: replace_id_in_command replaces every <id> of the template by the   *)
(* identifier as it is and keeps every other character; a template         *)
(* without <id> comes back unchanged.                                      *)
(***************************************************************************)
C16_EveryPlaceholderReplaced ==
    called = "replace_id_in_command" =>
        LET template == args[1]
            id_value == args[2]
        IN /\ IsSubstitution(template, id_value, returned)
           /\ Placeholders(template) = {} => returned = template
           /\ (template = ECHO_TWICE /\ id_value = <<"X">>) =>
                 returned = <<"e", "c", "h", "o", " ", "X", " ", "a", "n", "d", " ", "X">>

C16_Witness ==
    /\ called = "replace_id_in_command"
    /\ args[1] = ECHO_TWICE /\ args[2] = <<"X">>
    /\ returned = <<"e", "c", "h", "o", " ", "X", " ", "a", "n", "d", " ", "X">>

(***************************************************************************)
(* C17: read_ids_from_csv returns the stripped first cells of the rows in  *)
(* row order, without the empty rows and the rows whose first cell is      *)
(* blank: no identifier is empty, the order of the rows is kept and equal  *)
(* values stay separate entries.                                           *)
(***************************************************************************)
KeptRows(rows) ==
    {k \in 1..Len(rows) :
        /\ rows[k] # <<>>
        /\ \E c \in 1..Len(rows[k][1]) : rows[k][1][c] \notin Whitespace}

\* the j-th kept row
KeptRow(rows, j) ==
    CHOOSE k \in KeptRows(rows) : Cardinality({h \in KeptRows(rows) : h <= k}) = j

C17_IdsInRowOrder ==
    called = "read_ids_from_csv" =>
        LET rows == args[1] IN
        /\ Len(returned) = Cardinality(KeptRows(rows))
        /\ \A j \in 1..Len(returned) :
              /\ returned[j] = Strip(rows[KeptRow(rows, j)][1])
              /\ returned[j] # <<>>
              /\ returned[j][1] \notin Whitespace
              /\ returned[j][Len(returned[j])] \notin Whitespace

C17_Witness ==
    /\ called = "read_ids_from_csv"
    /\ Len(args[1]) = 4
    /\ args[1][2] = <<>> /\ args[1][3] = << <<" ">>, <<"x">> >>
    /\ returned = << <<"a">>, <<"a">> >>

(***************************************************************************)
(* C18: the j-th per-identifier step of a run substitutes the j-th         *)
(* identifier of the list, and what it hands to execute_command is the     *)
(* template with that identifier in place of every <id>; no position is    *)
(* processed twice, and the template and the list do not change once       *)
(* loaded.                                                                 *)
(***************************************************************************)
StepsUpTo(k) ==
    Cardinality({h \in 1..k : trace[h].op = "replace_id_in_command"})

C18_IdentifiersInSourceOrder ==
    /\ [](\A k \in 1..Len(trace) :
            trace[k].op = "replace_id_in_command" =>
                /\ StepsUpTo(k) <= Len(ids)
                /\ trace[k].arg = ids[StepsUpTo(k)]
                /\ ~dry_run =>
                      /\ k < Len(trace)
                      /\ trace[k + 1].op = "execute_command"
                      /\ IsSubstitution(command_template, ids[StepsUpTo(k)],
                                        trace[k + 1].arg))
    /\ [](last.id_value # None =>
            /\ last.id_value = ids[Processed]
            /\ IsSubstitution(command_template, last.id_value, last.command))
    /\ [][ /\ command_template # None => command_template' = command_template
           /\ pc \in {"for", "loop", "sleep", "summary", "returned"} => ids' = ids ]_vars

C18_Witness ==
    /\ ~dry_run /\ pc = "returned"
    /\ Len(ids) >= 4 /\ Processed = Len(ids)
    /\ ids[1] # ids[2] /\ ids[1] = ids[3]
    /\ Cardinality(Placeholders(command_template)) = 2

(***************************************************************************)
(* C20: a step that executes its command and does not stop the run on an   *)
(* HTTP error adds one to exactly one counter, chosen by the exit status   *)
(* alone: the success counter for status 0, the failure counter for any    *)
(* other status, the -1 of a timeout or launch failure included; the loop  *)
(* then goes on to the pause or to the next identifier.                    *)
(***************************************************************************)
C20_ExitStatusAloneCounts ==
    [][ (StepTaken /\ last'.executed /\ ~stopped') =>
            /\ IF last'.exit_code = 0
               THEN /\ successful_executions' = successful_executions + 1
                    /\ failed_executions' = failed_executions
               ELSE /\ failed_executions' = failed_executions + 1
                    /\ successful_executions' = successful_executions
            /\ pc' = IF Processed' < Len(ids) THEN "sleep" ELSE "for" ]_vars

C20_Witness ==
    /\ verify_return /\ ~stopped
    /\ last.executed /\ last.exit_code = -1 /\ last.stderr = TIMED_OUT
    /\ failed_executions = 2 /\ successful_executions = 1
    /\ pc = "loop" /\ Processed = 3

(***************************************************************************)
(* main: the command-line entry point around one run.                      *)
(***************************************************************************)

\* the state when main has parsed its arguments: Init, about to validate
MainInit ==
    /\ command_file \in CommandFiles
    /\ csv_file \in CsvFiles
    /\ delay_ms \in DelayChoices
    /\ verify_return \in BOOLEAN
    /\ dry_run \in BOOLEAN
    /\ pc = "main"
    /\ command_template = None
    /\ ids = <<>>
    /\ i = 0
    /\ successful_executions = 0
    /\ failed_executions = 0
    /\ last = NoLast
    /\ stopped = FALSE
    /\ trace = <<>>
    /\ summary = <<>>
    /\ raised = "none"
    /\ called = "none"
    /\ args = <<>>
    /\ returned = <<>>
    /\ exit_calls = <<>>

\* lines 345 and 350: os.path.exists(path)
Exists(file) == file.error # "FileNotFoundError"

\* sys.exit(status): the status is recorded and main is over
Exit(status) ==
    /\ exit_calls' = Append(exit_calls, status)
    /\ pc' = "exited"

\* lines 345-362: exit when a file is missing, else construct the executor
\* and enter run_batch_execution
MainValidate ==
    /\ pc = "main"
    /\ IF ~Exists(command_file) \/ ~Exists(csv_file)
       THEN Exit(1)
       ELSE pc' = "read_command_template" /\ UNCHANGED exit_calls
    /\ UNCHANGED <<called, args, returned, config, command_template, ids, i, successful_executions,
                   failed_executions, last, stopped, trace, summary, raised>>

\* variant: the handler catches a missing file only
CaughtIfFileNotFound(exception) == exception = "FileNotFoundError"

\* line 363: except Exception; every load error is an OSError
Caught(exception) == TRUE

\* lines 363-365: the handler logs and exits; what it does not catch leaves
\* main as an exception
MainExcept ==
    /\ pc = "raised"
    /\ IF Caught(raised)
       THEN Exit(1)
       ELSE pc' = "main_raised" /\ UNCHANGED exit_calls
    /\ UNCHANGED <<called, args, returned, config, command_template, ids, i, successful_executions,
                   failed_executions, last, stopped, trace, summary, raised>>

\* line 362: run_batch_execution returned; main returns
MainReturn ==
    /\ pc = "returned"
    /\ pc' = "main_returned"
    /\ UNCHANGED <<outside, config, command_template, ids, i, successful_executions,
                   failed_executions, last, stopped, trace, summary, raised>>

MainNext ==
    \/ MainValidate
    \/ Next
    \/ MainExcept
    \/ MainReturn

MainSpec == MainInit /\ [][MainNext]_vars

(***************************************************************************)
(* C19: main exits with status 1 when the command file or the CSV file     *)
(* does not exist, without running anything, and when the run raises an    *)
(* exception; when both files exist and the run raises nothing, main       *)
(* returns without calling exit.                                           *)
(***************************************************************************)
MainOver == pc \in {"exited", "main_returned", "main_raised"}

IsMissing(file) == file.error = "FileNotFoundError"

C19_MainExitStatus ==
    /\ (IsMissing(command_file) \/ IsMissing(csv_file)) /\ pc # "main" =>
          /\ pc = "exited" /\ exit_calls = <<1>>
          /\ raised = "none" /\ command_template = None /\ trace = <<>>
    /\ raised # "none" /\ pc # "raised" =>
          pc = "exited" /\ exit_calls = <<1>>
    /\ MainOver /\ ~IsMissing(command_file) /\ ~IsMissing(csv_file) /\ raised = "none" =>
          pc = "main_returned" /\ exit_calls = <<>>

C19_Witness ==
    /\ pc = "exited" /\ exit_calls = <<1>>
    /\ command_file.error = "none" /\ command_template # None
    /\ raised = "PermissionError" /\ csv_file.error = "PermissionError"

(***************************************************************************)
(* C21: with verify_return on, an execution that yields no status code, or *)
(* a code outside 400..599, never stops the run, whatever its exit status: *)
(* it is counted by its exit status and the loop goes on.  A run is        *)
(* stopped only with the flag on, outside dry-run, by a code in 400..599.  *)
(***************************************************************************)
CodeOf(code) == 100 * DigitValue(code[1]) + 10 * DigitValue(code[2]) + DigitValue(code[3])

NoHttpError(code) == code = None \/ CodeOf(code) < 400 \/ CodeOf(code) > 599

C21_NoStopWithoutHttpError ==
    /\ [][ (StepTaken /\ verify_return /\ last'.executed /\ NoHttpError(last'.http_code)) =>
              /\ ~stopped'
              /\ pc' = IF Processed' < Len(ids) THEN "sleep" ELSE "for"
              /\ successful_executions' + failed_executions'
                     = successful_executions + failed_executions + 1
              /\ (last'.exit_code # 0 => failed_executions' = failed_executions + 1) ]_vars
    /\ [](stopped =>
              /\ verify_return /\ ~dry_run /\ last.executed
              /\ ~NoHttpError(last.http_code))
    /\ [][ stopped' /\ ~stopped => StepTaken ]_vars

C21_Witness ==
    /\ verify_return /\ ~dry_run /\ ~stopped /\ pc = "returned"
    /\ Len(ids) >= 3 /\ Processed = Len(ids)
    /\ last.http_code = <<"6", "0", "0">> /\ last.exit_code # 0
    /\ failed_executions = Len(ids)

(***************************************************************************)
(* C22: a dry run still pauses between identifiers: once after every       *)
(* substitution except the last, so N - 1 times over N >= 2 identifiers    *)
(* and never over one identifier or none.                                  *)
(***************************************************************************)
C22_DryRunDelays ==
    dry_run =>
        /\ \A k \in 1..Len(trace) :
              trace[k].op = IF k % 2 = 1 THEN "replace_id_in_command" ELSE "sleep"
        /\ Len(trace) <= 2 * Len(ids) - 1 \/ trace = <<>>
        /\ (pc = "sleep" \/ (pc = "for" /\ Processed < Len(ids) /\ Processed >= 1)) =>
              SleepCount = Processed - (IF pc = "sleep" THEN 1 ELSE 0)
        /\ (pc = "returned" /\ Loaded) =>
              /\ Processed = Len(ids)
              /\ SleepCount = IF Len(ids) >= 2 THEN Len(ids) - 1 ELSE 0

C22_Witness ==
    /\ dry_run /\ pc = "returned"
    /\ Len(ids) >= 3 /\ Processed = Len(ids)
    /\ SleepCount = Len(ids) - 1
    /\ trace[Len(trace)].op = "replace_id_in_command"

(***************************************************************************)
(* C23: when both files load, the run returns; the index of the identifier *)
(* in progress never goes back and each position is processed once, in     *)
(* order; and the loop ends in exactly one of two ways: the for loop runs  *)
(* out of identifiers, or a step stops the run on an HTTP error.           *)
(***************************************************************************)
LoadsOk == command_file.error = "none" /\ csv_file.error = "none"

Exhausted == pc = "for" /\ i = Len(ids) /\ Processed = Len(ids) /\ ~stopped

EarlyStop == pc = "loop" /\ StepTaken /\ stopped' /\ IsHttpError(last'.http_code)

C23_Terminates ==
    /\ LoadsOk ~> (pc = "returned")
    /\ [](Running => ENABLED <<Next>>_vars)
    /\ [][ i' = i \/ (i' = i + 1 /\ pc = "for" /\ pc' = "loop") ]_vars
    /\ [](Processed = IF pc = "loop" THEN i - 1 ELSE i)
    /\ [](i <= Len(ids))
    /\ [][ (pc' = "summary" /\ pc # "summary") => (Exhausted # EarlyStop) ]_vars
    /\ [][ (pc' = "returned" /\ pc # "returned") =>
              (pc = "summary" \/ (pc = "read_ids_from_csv" /\ ids' = <<>>)) ]_vars

C23_Witness ==
    /\ pc = "returned" /\ ~stopped /\ verify_return /\ ~dry_run
    /\ i = Len(ids) /\ Len(ids) >= 4
    /\ last.exit_code = -1 /\ summary # <<>>

(***************************************************************************)
(* C24, as claimed: every run that loaded its files, a run given an empty  *)
(* identifier list included, has emitted the summary exactly once when it  *)
(* returns.                                                                *)
(***************************************************************************)
C24_SummaryAlways ==
    pc = "returned" => Len(summary) = 1

(***************************************************************************)
(* C24, amended: a run that loaded at least one identifier emits the       *)
(* summary exactly once, completed or stopped early, with the two counters *)
(* as they stand after the last per-identifier step, and nothing is        *)
(* substituted, executed or slept after it; a run given an empty list      *)
(* returns without a summary; and only a load failure is ever raised.      *)
(***************************************************************************)
C24_SummaryAfterLoop ==
    /\ (pc = "for") ~> (Len(summary) = 1)
    /\ [](pc = "returned" => Len(summary) = IF ids = <<>> THEN 0 ELSE 1)
    /\ [](summary # <<>> =>
             /\ pc = "returned" /\ Len(summary) = 1
             /\ summary[1].successful = successful_executions
             /\ summary[1].failed = failed_executions
             /\ successful_executions + failed_executions = Processed)
    /\ [][ summary # <<>> => trace' = trace ]_vars
    /\ [](raised # "none" => ~LoadsOk /\ trace = <<>> /\ summary = <<>>)

C24_Witness ==
    /\ pc = "returned" /\ stopped /\ Len(summary) = 1
    /\ summary[1].failed = 1 /\ summary[1].successful = 2
    /\ Processed = 3 /\ Len(ids) > 3

(***************************************************************************)
(* C25: the two counters together count the per-identifier steps made:     *)
(* their sum is the number of steps at every moment, a step adds one to    *)
(* exactly one of them and nothing else changes them, the sum never        *)
(* exceeds the number of identifiers, and equals it when a run that was    *)
(* not stopped returns.                                                    *)
(***************************************************************************)
C25_CountersCountSteps ==
    /\ [](successful_executions + failed_executions = Processed)
    /\ [](successful_executions + failed_executions <= Len(ids))
    /\ [][ IF StepTaken
           THEN \/ /\ successful_executions' = successful_executions + 1
                   /\ failed_executions' = failed_executions
                \/ /\ failed_executions' = failed_executions + 1
                   /\ successful_executions' = successful_executions
           ELSE /\ successful_executions' = successful_executions
                /\ failed_executions' = failed_executions ]_vars
    /\ []((pc = "returned" /\ ~stopped) =>
             successful_executions + failed_executions = Len(ids))

C25_Witness ==
    /\ pc = "returned" /\ ~stopped /\ ~dry_run
    /\ successful_executions >= 2 /\ failed_executions >= 2
    /\ successful_executions + failed_executions = Len(ids)

(***************************************************************************)
(* C26: verify_return has no effect on a dry run.  Whatever the flag and   *)
(* the template, a dry run is never stopped and counts no failure, and its *)
(* calls, counters and summary at each place of control are those given    *)
(* here from the template, the identifiers, the delay and the index alone: *)
(* substitutions of the identifiers in order with a pause between them,    *)
(* all of them once the run returns.                                       *)
(***************************************************************************)
DryCall(k) ==
    IF k % 2 = 1
    THEN [op |-> "replace_id_in_command", arg |-> ids[(k + 1) \div 2]]
    ELSE [op |-> "sleep", arg |-> <<delay_ms, 1000>>]

DryCalls ==
    CASE pc \in {"read_command_template", "read_ids_from_csv", "raised"} -> 0
      [] pc = "loop" -> 2 * (i - 1)
      [] pc = "sleep" -> 2 * i - 1
      [] pc = "for" -> IF i = 0 THEN 0 ELSE IF i < Len(ids) THEN 2 * i ELSE 2 * i - 1
      [] pc \in {"summary", "returned"} -> IF ids = <<>> THEN 0 ELSE 2 * Len(ids) - 1

C26_FlagIgnoredInDryRun ==
    dry_run =>
        /\ ~stopped /\ failed_executions = 0
        /\ trace = [k \in 1..DryCalls |-> DryCall(k)]
        /\ successful_executions = (Len(trace) + 1) \div 2
        /\ pc \in {"summary", "returned"} => i = Len(ids)
        /\ last = IF trace = <<>> THEN NoLast
                  ELSE [NoLast EXCEPT !.id_value = ids[successful_executions],
                                      !.command = Replace(command_template, PLACEHOLDER,
                                                          ids[successful_executions])]
        /\ summary = IF pc = "returned" /\ ids # <<>>
                     THEN <<[successful |-> Len(ids), failed |-> 0, total |-> Len(ids)]>>
                     ELSE <<>>

C26_Witness ==
    /\ dry_run /\ verify_return /\ pc = "returned"
    /\ IsCurlCommand(command_template)
    /\ Len(ids) >= 4 /\ summary # <<>>
    /\ summary[1].successful = Len(ids)
    /\ Len(trace) = 2 * Len(ids) - 1

====
